---- MODULE Spec2Model ----
(***************************************************************************)
(* Model of tcvaemolgen/models/prop_predictor.py: the PropPredictor        *)
(* LightningModule.  The object's fields are the variables; every hook the *)
(* trainer calls (step wrappers, epoch hooks, *_end, data loaders) is one  *)
(* action.  Tensors are sequences of integers (one row per molecule or per *)
(* atom); real-valued results are exact fractions <<numerator, denom>>;    *)
(* Sigmoid and the BCE term are fixed-point tables in 1/1000 units.        *)
(***************************************************************************)
EXTENDS Integers, Sequences, FiniteSets, TLC

VARIABLES
    agg,              \* one call of _aggregate_atom_h: its inputs and its result
    loader,           \* one call of a *_dataloader: its configuration and the readers it invoked
    hparams,          \* self.hparams (immutable for the run)
    n_classes,        \* self.n_classes
    W,                \* weights of W_p_h and W_p_o
    all_pred_logits,  \* self.all_pred_logits: list of per-batch logit tensors
    all_labels,       \* self.all_labels: list of per-batch label tensors
    current_epoch,    \* self.current_epoch (maintained by the trainer)
    writes,           \* the write_props calls made so far (their paths)
    validCalls,       \* history: epoch and batch_idx of every completed validation_step
    stepsSince,       \* history: steps completed since the last epoch hook
    ret,              \* the last hook call: which one, what it raised, what it returned
    outputs           \* the step results the trainer collected for test_end / validation_end

vars == <<agg, loader, hparams, n_classes, W, all_pred_logits, all_labels,
          current_epoch, writes, validCalls, stepsSince, ret, outputs>>

-----------------------------------------------------------------------------
(* Bounds of the exploration.                                              *)
MaxMols == 2       \* molecules per batch in the aggregation specification
MaxAtoms == 2      \* atoms per molecule in the aggregation specification
MaxSteps == 2      \* steps between two epoch hooks
MaxEpoch == 1      \* the trainer advances current_epoch up to this
MaxWrites == 2     \* validation steps explored per run
MaxOutputs == 2    \* step results the trainer hands to an *_end hook
AtomVals == {0, 1, 2}

-----------------------------------------------------------------------------
(* Generic helpers over sequences.                                         *)
RECURSIVE SumSeq(_)
SumSeq(s) == IF s = <<>> THEN 0 ELSE Head(s) + SumSeq(Tail(s))

RECURSIVE Concat(_)
Concat(ss) == IF ss = <<>> THEN <<>> ELSE Head(ss) \o Concat(Tail(ss))

(* The sequence f, evaluated once (TLC otherwise re-evaluates a function   *)
(* expression at every application).                                       *)
AsSeq(f) == f \o <<>>

SeqsUpTo(S, n) == UNION {[1..k -> S] : k \in 1..n}

-----------------------------------------------------------------------------
(* The molecular graph's scope: mols[i].atoms lists the rows of the        *)
(* per-atom hidden matrix that belong to molecule i, one contiguous block  *)
(* after the blocks of the molecules before it (rows numbered from 0).     *)
MolGraphMols(lens) ==
    AsSeq([i \in 1..Len(lens) |->
        [atoms |-> AsSeq([k \in 1..lens[i] |-> SumSeq(SubSeq(lens, 1, i - 1)) + k - 1])]])

(* torch.Tensor.narrow(0, start, length): rows start .. start+length-1.    *)
narrow(t, start, length) == SubSeq(t, start + 1, start + length)

(* _aggregate_atom_h: `for (st, le) in enumerate(scope)` binds st to the   *)
(* molecule's position 0, 1, 2, ... in the batch, and the block summed is  *)
(* atom_h.narrow(0, st, len(le['atoms'])).                                 *)
aggregate_atom_h(atom_h, scope) ==
    AsSeq([i \in 1..Len(scope) |->
        SumSeq(narrow(atom_h, i - 1, Len(scope[i].atoms)))])

-----------------------------------------------------------------------------
(* Exact fractions <<numerator, denominator>>.                             *)
FracEq(a, b) == a[1] * b[2] = b[1] * a[2]

FracAdd(a, b) == <<a[1] * b[2] + b[1] * a[2], a[2] * b[2]>>

RECURSIVE FracSum(_)
FracSum(fs) == IF fs = <<>> THEN <<0, 1>> ELSE FracAdd(Head(fs), FracSum(Tail(fs)))

(* torch.stack(xs).mean() over a non-empty list of scalar tensors.         *)
StackMean(fs) == LET s == FracSum(fs) IN <<s[1], s[2] * Len(fs)>>

-----------------------------------------------------------------------------
(* The prediction head (hidden_size 1): W_p_h, ReLU, W_p_o.                *)
ReLU(x) == IF x > 0 THEN x ELSE 0

W_p_h(m) == W.wh * m + W.bh

W_p_o(h) == AsSeq([c \in 1..n_classes |-> W.wo[c] * h + W.bo[c]])

(* forward: one row of n_classes logits per molecule of the scope.         *)
forward(atom_h, scope) ==
    LET mol_h == aggregate_atom_h(atom_h, scope)
    IN  AsSeq([i \in 1..Len(mol_h) |-> W_p_o(ReLU(W_p_h(mol_h[i])))])

(* Tensor.squeeze(1): drops dimension 1 when its size is 1.                *)
squeeze1(t) == IF n_classes = 1 THEN AsSeq([i \in 1..Len(t) |-> t[i][1]]) ELSE t

(* All elements of a tensor of the predictor's output shape, row-major.    *)
Flat(t) == IF n_classes = 1 THEN t ELSE Concat(t)

(* nn.Sigmoid in 1/1000 units, rounded; saturated beyond +-6.              *)
Sigmoid(x) ==
    CASE x <= -7 -> 1   [] x = -6 -> 2   [] x = -5 -> 7   [] x = -4 -> 18
      [] x = -3 -> 47   [] x = -2 -> 119 [] x = -1 -> 269 [] x = 0 -> 500
      [] x = 1 -> 731   [] x = 2 -> 881  [] x = 3 -> 953  [] x = 4 -> 982
      [] x = 5 -> 993   [] x = 6 -> 998  [] x >= 7 -> 999

(* -log(p) in 1/1000 units for the probabilities Sigmoid produces.         *)
NegLog(p) ==
    CASE p = 1 -> 6908   [] p = 2 -> 6215   [] p = 7 -> 4962  [] p = 18 -> 4017
      [] p = 47 -> 3058  [] p = 119 -> 2129 [] p = 269 -> 1313 [] p = 500 -> 693
      [] p = 731 -> 313  [] p = 881 -> 127  [] p = 953 -> 48   [] p = 982 -> 18
      [] p = 993 -> 7    [] p = 998 -> 2    [] p = 999 -> 1

SigmoidAll(t) ==
    IF n_classes = 1 THEN AsSeq([i \in 1..Len(t) |-> Sigmoid(t[i])])
    ELSE AsSeq([i \in 1..Len(t) |-> AsSeq([c \in 1..Len(t[i]) |-> Sigmoid(t[i][c])])])

(* nn.L1Loss: mean absolute difference (what 'mae' suggests).              *)
L1Loss(input, target) ==
    LET x == Flat(input)
        y == Flat(target)
        d(i) == IF x[i] >= y[i] THEN x[i] - y[i] ELSE y[i] - x[i]
    IN  <<SumSeq([i \in 1..Len(x) |-> d(i)]), Len(x)>>

(* nn.MSELoss()(input, target): mean over all elements of the squared difference. *)
MSELoss(input, target) ==
    LET x == Flat(input)
        y == Flat(target)
    IN  <<SumSeq([i \in 1..Len(x) |-> (x[i] - y[i]) * (x[i] - y[i])]), Len(x)>>

(* nn.BCELoss()(probs, target): mean of -(y log p + (1-y) log(1-p)).       *)
BCELoss(probs, target) ==
    LET p == Flat(probs)
        y == Flat(target)
        term(i) == y[i] * NegLog(p[i]) + (1 - y[i]) * NegLog(1000 - p[i])
    IN  <<SumSeq([i \in 1..Len(p) |-> term(i)]), 1000 * Len(p)>>

(* torch.sum(pred_logits == labels).item() / (n_data * 1.0)                *)
ExactMatchAcc(pred_logits, labels, n_data) ==
    LET x == Flat(pred_logits)
        y == Flat(labels)
    IN  <<Cardinality({i \in 1..Len(x) : x[i] = y[i]}), n_data>>

-----------------------------------------------------------------------------
(* Epoch-level metrics.                                                    *)

(* Thresholding with a non-strict comparison.                              *)
ThresholdPredsGE(input_probs) ==
    AsSeq([i \in 1..Len(input_probs) |-> IF input_probs[i] >= 500 THEN 1 ELSE 0])

(* preds = (input_probs > 0.5).astype(int), elementwise.                   *)
ThresholdPreds(input_probs) ==
    AsSeq([i \in 1..Len(input_probs) |-> IF input_probs[i] > 500 THEN 1 ELSE 0])

(* np.argmax(row): the first index (from 0) of the largest score.          *)
ArgMax(row) ==
    CHOOSE k \in 0..(Len(row) - 1) :
        /\ \A j \in 1..Len(row) : row[j] <= row[k + 1]
        /\ \A j \in 1..k : row[j] < row[k + 1]

(* np.mean(preds == target) over equally shaped flat arrays.               *)
MeanEq(preds, target) ==
    <<Cardinality({i \in 1..Len(preds) : preds[i] = target[i]}), Len(preds)>>

(* _compute_acc(input_probs, target, n_classes=1).  In the arg-max branch  *)
(* target is the vector of class indices; in the threshold branch the      *)
(* comparison is elementwise over arrays of the probabilities' shape.      *)
compute_acc(input_probs, target, nc) ==
    IF nc > 1
    THEN MeanEq([i \in 1..Len(input_probs) |-> ArgMax(input_probs[i])], target)
    ELSE MeanEq(ThresholdPreds(Flat(input_probs)), Flat(target))

(* metrics.roc_auc_score on one column: the share of (positive, negative)  *)
(* pairs the scores rank correctly, ties counting one half.  With a single *)
(* class present the score is undefined (denominator 0).                   *)
ColumnAuc(p, y) ==
    LET pos == {i \in 1..Len(y) : y[i] = 1}
        neg == {i \in 1..Len(y) : y[i] # 1}
        gt == {q \in pos \X neg : p[q[1]] > p[q[2]]}
        eq == {q \in pos \X neg : p[q[1]] = p[q[2]]}
    IN  <<2 * Cardinality(gt) + Cardinality(eq), 2 * Cardinality(pos) * Cardinality(neg)>>

(* _compute_auc: roc_auc_score; for a label matrix, the macro average over *)
(* the label columns.                                                      *)
compute_auc(input_probs, target) ==
    IF n_classes = 1 THEN ColumnAuc(input_probs, target)
    ELSE StackMean([c \in 1..n_classes |->
            ColumnAuc([i \in 1..Len(target) |-> input_probs[i][c]],
                      [i \in 1..Len(target) |-> target[i][c]])])

-----------------------------------------------------------------------------
(* step(batch, batch_idx)                                                  *)
NoVal == <<>>

SupportedLoss == {"mse", "mae", "ce"}

(* Line 117: the batch is buffered for the epoch-level metrics.            *)
AlwaysBuffer(loss_type) == TRUE

BufferOnStep(loss_type) == loss_type = "ce"

(* pred_logits = self(mol_graph, stats_tracker=None).squeeze(1)            *)
step_pred_logits(batch) ==
    squeeze1(forward(batch.atom_h, MolGraphMols(batch.lens)))

(* The loss of lines 121-125 with 'mae' given the absolute error.          *)
step_loss_l1(pred_logits, labels) ==
    IF hparams.loss_type = "mse" THEN MSELoss(pred_logits, labels)
    ELSE IF hparams.loss_type = "mae" THEN L1Loss(pred_logits, labels)
    ELSE BCELoss(SigmoidAll(pred_logits), labels)

(* Lines 121-125: the loss for a supported loss type.                      *)
step_loss(pred_logits, labels) ==
    IF hparams.loss_type = "mse" \/ hparams.loss_type = "mae"
    THEN MSELoss(pred_logits, labels)
    ELSE BCELoss(SigmoidAll(pred_logits), labels)

(* What step returns, or the exception it raises.                          *)
step(batch, batch_idx) ==
    LET n_data == Len(batch.lens)
        pred_logits == step_pred_logits(batch)
        labels == batch.labels_list
    IN  IF hparams.loss_type \notin SupportedLoss
        THEN [raised |-> "AssertionError"]
        ELSE LET l == step_loss(pred_logits, labels)
                 loss == <<l[1], l[2] * hparams.batch_splits>>
             IN  [raised |-> "none", loss |-> loss,
                  acc |-> ExactMatchAcc(pred_logits, labels, n_data), mae |-> loss,
                  smiles_list |-> batch.lens, labels_list |-> labels,
                  pred_logits |-> pred_logits]

(* The state step changes: the epoch buffers (lines 117-119, executed      *)
(* before the loss type is checked).                                       *)
step_buffers(batch) ==
    IF BufferOnStep(hparams.loss_type)
    THEN /\ all_pred_logits' = Append(all_pred_logits, step_pred_logits(batch))
         /\ all_labels' = Append(all_labels, batch.labels_list)
    ELSE UNCHANGED <<all_pred_logits, all_labels>>

-----------------------------------------------------------------------------
(* Inputs of the hooks.                                                    *)

(* Encoder outputs for a batch: the molecules' atom counts (standing for   *)
(* the SMILES list) and one hidden value per atom row.  A classification   *)
(* data set has binary labels, a regression data set numeric ones.         *)
ClassificationInputs ==
    { [lens |-> <<1>>, atom_h |-> <<0>>],
      [lens |-> <<1, 2>>, atom_h |-> <<1, 1, 1>>] }

RegressionInputs ==
    { [lens |-> <<1>>, atom_h |-> <<0>>],
      [lens |-> <<2, 3>>, atom_h |-> <<1, 1, 1, 1, 1>>] }

RegressionLabels == {1, 3}

BinaryLabels == {0, 1}

MultiLabelRows == {<<1, 0>>, <<0, 1>>}

AtomInputs ==
    IF hparams.loss_type = "ce" THEN ClassificationInputs ELSE RegressionInputs

LabelLists(n) ==
    IF n_classes > 1 THEN [1..n -> MultiLabelRows]
    ELSE IF hparams.loss_type = "ce" THEN [1..n -> BinaryLabels]
    ELSE [1..n -> RegressionLabels]

Batches ==
    UNION { { [lens |-> a.lens, atom_h |-> a.atom_h, labels_list |-> l] :
                l \in LabelLists(Len(a.lens)) } : a \in AtomInputs }

BatchIdxs == {0, 1}

-----------------------------------------------------------------------------
(* Epoch hooks.                                                            *)
Call(op, raised, val, aux) ==
    [op |-> op, raised |-> raised, val |-> val, aux |-> aux, taken |-> FALSE]

(* An on_epoch_start that leaves the buffers as they are.                  *)
on_epoch_start_keep ==
    /\ stepsSince' = 0
    /\ ret' = Call("on_epoch_start", "none", NoVal, [cleared |-> Len(all_pred_logits)])
    /\ UNCHANGED <<agg, loader, hparams, n_classes, W, all_pred_logits, all_labels,
                   current_epoch, writes, validCalls, outputs>>

(* on_epoch_start: self.all_pred_logits, self.all_labels = [], []          *)
on_epoch_start ==
    /\ all_pred_logits' = <<>>
    /\ all_labels' = <<>>
    /\ stepsSince' = 0
    /\ ret' = Call("on_epoch_start", "none", NoVal, [cleared |-> Len(all_pred_logits)])
    /\ UNCHANGED <<agg, loader, hparams, n_classes, W, current_epoch, writes,
                   validCalls, outputs>>

(* The buffers on_epoch_end leaves behind in 'ce' mode (line 156).         *)
EpochEndKeepLabels(logits, labels) == <<<<>>, labels>>

EpochEndBuffers(logits, labels) == <<<<>>, <<>>>>

(* on_epoch_end.  In 'ce' mode torch.cat of an empty list raises before    *)
(* anything is assigned; otherwise the buffers are concatenated, the       *)
(* metrics computed (_compute_acc with its default n_classes=1) and the    *)
(* buffers reset.  In the other modes it returns None.                     *)
on_epoch_end ==
    /\ stepsSince' = 0
    /\ IF hparams.loss_type = "ce"
       THEN IF all_pred_logits = <<>>
            THEN /\ ret' = Call("on_epoch_end", "RuntimeError", NoVal, NoVal)
                 /\ UNCHANGED <<all_pred_logits, all_labels>>
            ELSE LET logits == Concat(all_pred_logits)
                     labels == Concat(all_labels)
                     pred_probs == SigmoidAll(logits)
                     acc == compute_acc(pred_probs, labels, 1)
                     auc == compute_auc(pred_probs, labels)
                     logger_logs == [loss |-> auc, acc |-> acc]
                     left == EpochEndBuffers(all_pred_logits, all_labels)
                 IN  /\ ret' = Call("on_epoch_end", "none",
                                    [loss |-> auc, progress_bar |-> logger_logs,
                                     log |-> logger_logs],
                                    [pred_probs |-> pred_probs, labels |-> labels])
                     /\ all_pred_logits' = left[1]
                     /\ all_labels' = left[2]
       ELSE /\ ret' = Call("on_epoch_end", "none", NoVal, NoVal)
            /\ UNCHANGED <<all_pred_logits, all_labels>>
    /\ UNCHANGED <<agg, loader, hparams, n_classes, W, current_epoch, writes,
                   validCalls, outputs>>

-----------------------------------------------------------------------------
(* The step wrappers.  Calls of the experiment logger change nothing of    *)
(* the predictor and are left out.                                         *)

(* training_step *)
training_step(batch, batch_idx) ==
    /\ stepsSince < MaxSteps
    /\ step_buffers(batch)
    /\ LET r == step(batch, batch_idx)
       IN  IF r.raised # "none"
           THEN /\ ret' = Call("training_step", r.raised, NoVal, NoVal)
                /\ UNCHANGED stepsSince
           ELSE LET logger_logs ==
                        IF hparams.loss_type \in {"mae", "mse"}
                        THEN [loss |-> r.loss, train_mae |-> r.mae]
                        ELSE [loss |-> r.loss]
                IN  /\ ret' = Call("training_step", "none",
                                   [loss |-> r.loss, progress_bar |-> logger_logs,
                                    log |-> logger_logs], r)
                    /\ stepsSince' = stepsSince + 1
    /\ UNCHANGED <<agg, loader, hparams, n_classes, W, current_epoch, writes,
                   validCalls, outputs>>

(* str.split(sep): the pieces between the separators.                      *)
RECURSIVE SplitFrom(_, _, _, _)
SplitFrom(s, sep, cur, acc) ==
    IF s = <<>> THEN Append(acc, cur)
    ELSE IF Head(s) = sep THEN SplitFrom(Tail(s), sep, <<>>, Append(acc, cur))
    ELSE SplitFrom(Tail(s), sep, Append(cur, Head(s)), acc)

Split(s, sep) == SplitFrom(s, sep, <<>>, <<>>)

(* A path that also depends on the batch.                                  *)
write_path_per_batch(batch_idx) ==
    LET parts == Split(hparams.data, "/")
    IN  [dir |-> "data/05_model_output", name |-> parts[Len(parts)],
         label |-> hparams.experiment_label, epoch |-> current_epoch + batch_idx]

(* Line 189: data/05_model_output/{data.split("/")[-1]}_{label}-valid_{epoch} *)
write_path(batch_idx) ==
    LET parts == Split(hparams.data, "/")
    IN  [dir |-> "data/05_model_output", name |-> parts[Len(parts)],
         label |-> hparams.experiment_label, epoch |-> current_epoch]

(* validation_step *)
validation_step(batch, batch_idx) ==
    /\ stepsSince < MaxSteps
    /\ Len(writes) < MaxWrites
    /\ step_buffers(batch)
    /\ LET r == step(batch, batch_idx)
       IN  IF r.raised # "none"
           THEN /\ ret' = Call("validation_step", r.raised, NoVal, NoVal)
                /\ UNCHANGED <<stepsSince, writes, validCalls>>
           ELSE /\ writes' = Append(writes, write_path(batch_idx))
                /\ validCalls' = Append(validCalls, [epoch |-> current_epoch, batch_idx |-> batch_idx])
                /\ ret' = Call("validation_step", "none",
                               [val_loss |-> r.loss, val_acc |-> r.acc, val_mae |-> r.mae], r)
                /\ stepsSince' = stepsSince + 1
    /\ UNCHANGED <<agg, loader, hparams, n_classes, W, current_epoch, outputs>>

(* test_step *)
test_step(batch, batch_idx) ==
    /\ stepsSince < MaxSteps
    /\ step_buffers(batch)
    /\ LET r == step(batch, batch_idx)
       IN  IF r.raised # "none"
           THEN /\ ret' = Call("test_step", r.raised, NoVal, NoVal)
                /\ UNCHANGED stepsSince
           ELSE /\ ret' = Call("test_step", "none",
                               [test_loss |-> r.mae, test_acc |-> r.acc, val_mae |-> r.mae], r)
                /\ stepsSince' = stepsSince + 1
    /\ UNCHANGED <<agg, loader, hparams, n_classes, W, current_epoch, writes,
                   validCalls, outputs>>

-----------------------------------------------------------------------------
(* The trainer: it advances the epoch and collects the results of the      *)
(* validation and test steps into the list it hands to the *_end hook.     *)
TrainerAdvanceEpoch ==
    /\ current_epoch < MaxEpoch
    /\ current_epoch' = current_epoch + 1
    /\ UNCHANGED <<agg, loader, hparams, n_classes, W, all_pred_logits, all_labels,
                   writes, validCalls, stepsSince, ret, outputs>>

TrainerCollect ==
    /\ ret.op \in {"validation_step", "test_step"}
    /\ ret.raised = "none"
    /\ ~ret.taken
    /\ outputs.kind \in {"none", ret.op}
    /\ Len(outputs.items) < MaxOutputs
    /\ outputs' = [kind |-> ret.op, items |-> Append(outputs.items, ret.val)]
    /\ ret' = [ret EXCEPT !.taken = TRUE]
    /\ UNCHANGED <<agg, loader, hparams, n_classes, W, all_pred_logits, all_labels,
                   current_epoch, writes, validCalls, stepsSince>>

(* [x[key] for x in outputs] raises KeyError at the first dict without key; *)
(* torch.stack of an empty list raises.                                    *)
HasKey(x, key) == key \in DOMAIN x

EndRaises(items, keys) ==
    IF \E i \in 1..Len(items) : \E k \in keys : ~HasKey(items[i], k) THEN "KeyError"
    ELSE IF items = <<>> THEN "RuntimeError"
    ELSE "none"

(* validation_end(outputs) *)
validation_end ==
    /\ outputs.kind \in {"none", "validation_step"}
    /\ LET xs == outputs.items
           raised == EndRaises(xs, {"val_loss", "val_acc", "val_mae"})
       IN  IF raised # "none"
           THEN ret' = Call("validation_end", raised, NoVal, NoVal)
           ELSE LET avg_loss == StackMean([i \in 1..Len(xs) |-> xs[i].val_loss])
                    avg_acc == StackMean([i \in 1..Len(xs) |-> xs[i].val_acc])
                    mae == StackMean([i \in 1..Len(xs) |-> xs[i].val_mae])
                    logger_logs == [val_acc |-> avg_acc, val_loss |-> avg_loss, val_mae |-> mae]
                IN  ret' = Call("validation_end", "none",
                                [avg_val_loss |-> avg_loss, progress_bar |-> logger_logs,
                                 log |-> logger_logs], [n |-> Len(xs)])
    /\ outputs' = [kind |-> "none", items |-> <<>>]
    /\ UNCHANGED <<agg, loader, hparams, n_classes, W, all_pred_logits, all_labels,
                   current_epoch, writes, validCalls, stepsSince>>

(* test_end(outputs): reads x['test_loss'] and x['test_mae'].              *)
test_end ==
    /\ outputs.kind \in {"none", "test_step"}
    /\ LET xs == outputs.items
           raised == EndRaises(xs, {"test_loss", "test_mae"})
       IN  IF raised # "none"
           THEN ret' = Call("test_end", raised, NoVal, [n |-> Len(xs)])
           ELSE LET avg_loss == StackMean([i \in 1..Len(xs) |-> xs[i].test_loss])
                    mae == StackMean([i \in 1..Len(xs) |-> xs[i].test_mae])
                IN  ret' = Call("test_end", "none",
                                [avg_test_loss |-> avg_loss, test_mae |-> mae],
                                [n |-> Len(xs)])
    /\ outputs' = [kind |-> "none", items |-> <<>>]
    /\ UNCHANGED <<agg, loader, hparams, n_classes, W, all_pred_logits, all_labels,
                   current_epoch, writes, validCalls, stepsSince>>

-----------------------------------------------------------------------------
(* Data loader provisioning.  loader.calls lists, in order, the calls to   *)
(* the collaborators the last *_dataloader made.                           *)
SingleReaderOnly(multi) == "read_smiles_from_file"

(* Lines 263-269: the reader of raw.csv.                                   *)
DataReader(multi) ==
    IF multi THEN "read_smiles_multiclass" ELSE "read_smiles_from_file"

RawCsv == hparams.data \o <<"/", "raw.csv">>

SplitFile(split_idx) == hparams.data \o <<"/", "split_", split_idx, ".txt">>

Sampler == IF loader.use_ddp THEN "DistributedSampler" ELSE "None"

SamplerCalls(split) ==
    IF loader.use_ddp THEN <<[fn |-> "DistributedSampler", arg |-> split]>> ELSE <<>>

LoaderReturn(op, calls) ==
    /\ loader' = [loader EXCEPT !.op = op, !.calls = calls]
    /\ UNCHANGED <<agg, hparams, n_classes, W, all_pred_logits, all_labels,
                   current_epoch, writes, validCalls, stepsSince, ret, outputs>>

(* train_dataloader: the split file is chosen by self.split_idx.           *)
train_dataloader ==
    LoaderReturn("train_dataloader",
        <<[fn |-> DataReader(hparams.multi), arg |-> RawCsv],
          [fn |-> "read_splits", arg |-> SplitFile(loader.split_idx)],
          [fn |-> "get_loader", arg |-> <<"train", "shuffle", "None", "default">>]>>
        \o SamplerCalls("train") \o
        <<[fn |-> "get_loader",
           arg |-> <<"train", "shuffle", Sampler, hparams.batch_size>>]>>)

(* val_dataloader: split_idx = 0.                                          *)
val_dataloader ==
    LoaderReturn("val_dataloader",
        <<[fn |-> DataReader(hparams.multi), arg |-> RawCsv],
          [fn |-> "read_splits", arg |-> SplitFile(0)],
          [fn |-> "get_loader",
           arg |-> <<"valid", "shuffle", "None", hparams.batch_size>>]>>
        \o SamplerCalls("valid") \o
        <<[fn |-> "get_loader", arg |-> <<"valid", "no_shuffle", Sampler, "default">>]>>)

(* test_dataloader: split_idx = 0; shuffles exactly when no sampler is set. *)
test_dataloader ==
    LoaderReturn("test_dataloader",
        <<[fn |-> DataReader(hparams.multi), arg |-> RawCsv],
          [fn |-> "read_splits", arg |-> SplitFile(0)],
          [fn |-> "get_loader", arg |-> <<"test", "no_shuffle", "None", "default">>]>>
        \o SamplerCalls("test") \o
        <<[fn |-> "get_loader",
           arg |-> <<"test", IF loader.use_ddp THEN "no_shuffle" ELSE "shuffle",
                     Sampler, "default">>]>>)

-----------------------------------------------------------------------------
(* One call of _aggregate_atom_h on the inputs drawn initially.            *)
AggregateAtomH ==
    /\ ~agg.called
    /\ agg' = [agg EXCEPT !.mol_h = aggregate_atom_h(agg.atom_h, agg.scope),
                          !.called = TRUE]
    /\ UNCHANGED <<loader, hparams, n_classes, W, all_pred_logits, all_labels,
                   current_epoch, writes, validCalls, stepsSince, ret, outputs>>

-----------------------------------------------------------------------------
(* Initial states: the object after __init__ (buffers empty, line 41).     *)
DataPaths == { <<"d", "/", "t">>, <<"e", "/", "t">>, <<"t">>, <<"d", "/">> }

HParams(loss_types, splits, multis, datas, labels) ==
    [loss_type : loss_types, batch_splits : splits, multi : multis, data : datas,
     experiment_label : labels, batch_size : {50}]

Weights == { [wh |-> 1, bh |-> 0, wo |-> <<1, -1>>, bo |-> <<-1, 1>>] }

IdleAgg == [atom_h |-> <<>>, scope |-> <<>>, mol_h |-> NoVal, called |-> FALSE]

IdleLoader == [use_ddp |-> FALSE, split_idx |-> 0, op |-> "none", calls |-> <<>>]

Constructed(HP, NC) ==
    /\ hparams \in HP
    /\ n_classes \in NC
    /\ W \in Weights
    /\ all_pred_logits = <<>>
    /\ all_labels = <<>>
    /\ current_epoch = 0
    /\ writes = <<>>
    /\ validCalls = <<>>
    /\ stepsSince = 0
    /\ ret = Call("__init__", "none", NoVal, NoVal)
    /\ outputs = [kind |-> "none", items |-> <<>>]

(* The epoch life cycle, for every loss type and both head widths.         *)
OneData == {<<"d", "/", "t">>}

Init ==
    /\ \/ Constructed(HParams({"mse", "mae"}, {1, 2}, {FALSE}, OneData, {"x"}), {1})
       \/ Constructed(HParams({"ce"}, {1}, {FALSE}, OneData, {"x"}), {1, 2})
       \/ Constructed(HParams({"huber"}, {1}, {FALSE}, OneData, {"x"}), {1})
    /\ agg = IdleAgg
    /\ loader = IdleLoader

Next ==
    \/ on_epoch_start
    \/ on_epoch_end
    \/ \E batch \in Batches : training_step(batch, 0)
    \/ \E batch \in Batches : validation_step(batch, 0)
    \/ \E batch \in Batches : test_step(batch, 0)

Spec == Init /\ [][Next]_vars

(* The steps across epochs, for several data directories and labels.       *)
InitWrite ==
    /\ \/ Constructed(HParams({"mse"}, {1}, {FALSE}, DataPaths, {"x"}), {1})
       \/ Constructed(HParams({"mse"}, {1}, {FALSE}, OneData, {"y"}), {1})
    /\ agg = IdleAgg
    /\ loader = IdleLoader

NextWrite ==
    \/ TrainerAdvanceEpoch
    \/ \E batch \in Batches, batch_idx \in BatchIdxs : training_step(batch, batch_idx)
    \/ \E batch \in Batches, batch_idx \in BatchIdxs : validation_step(batch, batch_idx)
    \/ \E batch \in Batches, batch_idx \in BatchIdxs : test_step(batch, batch_idx)

SpecWrite == InitWrite /\ [][NextWrite]_vars

(* Validation and test runs: steps, collected by the trainer, then *_end.  *)
InitTest ==
    /\ Constructed(HParams({"mse"}, {1}, {FALSE}, OneData, {"x"}), {1})
    /\ agg = IdleAgg
    /\ loader = IdleLoader

NextTest ==
    \/ \E batch \in Batches : validation_step(batch, 0)
    \/ \E batch \in Batches : test_step(batch, 0)
    \/ TrainerCollect
    \/ validation_end
    \/ test_end
    \/ on_epoch_start

SpecTest == InitTest /\ [][NextTest]_vars

(* The data loaders, for both values of multi and of use_ddp.              *)
InitLoader ==
    /\ Constructed(HParams({"mse"}, {1}, BOOLEAN, DataPaths, {"x"}), {1})
    /\ agg = IdleAgg
    /\ loader \in [use_ddp : BOOLEAN, split_idx : {0, 1, 2}, op : {"none"}, calls : {<<>>}]

NextLoader ==
    \/ train_dataloader
    \/ val_dataloader
    \/ test_dataloader

SpecLoader == InitLoader /\ [][NextLoader]_vars

(* _aggregate_atom_h on every scope of up to MaxMols molecules of up to    *)
(* MaxAtoms atoms each, over every matrix of AtomVals rows.                *)
InitAgg ==
    /\ Constructed(HParams({"mse"}, {1}, {FALSE}, OneData, {"x"}), {1})
    /\ \E lens \in SeqsUpTo(1..MaxAtoms, MaxMols) :
         \E h \in [1..SumSeq(lens) -> AtomVals] :
            agg = [atom_h |-> h, scope |-> MolGraphMols(lens), mol_h |-> NoVal,
                   called |-> FALSE]
    /\ loader = IdleLoader

NextAgg == AggregateAtomH

SpecAgg == InitAgg /\ [][NextAgg]_vars

-----------------------------------------------------------------------------
(* Properties.                                                             *)
StepOps == {"training_step", "validation_step", "test_step"}

Returned(op) == ret.op = op /\ ret.raised = "none"

(* C1: for a batch of N molecules whose blocks of atom rows lie one after  *)
(* the other, _aggregate_atom_h returns N vectors and the i-th is the sum  *)
(* of exactly the rows of molecule i.                                      *)
C1_AggregateSumsOwnRows ==
    agg.called =>
        /\ Len(agg.mol_h) = Len(agg.scope)
        /\ \A i \in 1..Len(agg.scope) :
              agg.mol_h[i] =
                  SumSeq([k \in 1..Len(agg.scope[i].atoms) |->
                              agg.atom_h[agg.scope[i].atoms[k] + 1]])

(* C2: with a loss type other than 'mse', 'mae', 'ce' every step call      *)
(* fails with an assertion error instead of returning a loss, and a call   *)
(* that fails so leaves both epoch buffers as they were.                   *)
C2_UnsupportedLossFails ==
    /\ [](hparams.loss_type \notin SupportedLoss /\ ret.op \in StepOps
            => ret.raised = "AssertionError")
    /\ [][ret'.raised = "AssertionError"
            => all_pred_logits' = all_pred_logits /\ all_labels' = all_labels]_vars

C2_Witness ==
    /\ hparams.loss_type = "huber"
    /\ ret.op = "validation_step"
    /\ ret.raised = "AssertionError"
    /\ writes = <<>>

(* C3: after on_epoch_start both buffers are empty lists, whatever was     *)
(* buffered before it.                                                     *)
C3_EpochStartClears ==
    ret.op = "on_epoch_start" => all_pred_logits = <<>> /\ all_labels = <<>>

C3_Witness ==
    /\ ret.op = "on_epoch_start"
    /\ hparams.loss_type = "ce"
    /\ ret.aux.cleared = MaxSteps
    /\ all_pred_logits = <<>>

(* C4: in single-class classification mode the epoch-end accuracy is the   *)
(* share of buffered examples whose predicted class equals the label, the  *)
(* predicted class being 1 exactly when the probability is strictly above  *)
(* 0.5; a probability of exactly 0.5 counts as class 0.                    *)
C4_ThresholdAccuracy ==
    (hparams.loss_type = "ce" /\ n_classes = 1 /\ Returned("on_epoch_end")) =>
        LET p == ret.aux.pred_probs
            y == ret.aux.labels
            right == {i \in 1..Len(y) : (y[i] = 1 /\ p[i] > 500) \/ (y[i] = 0 /\ p[i] <= 500)}
        IN  /\ Len(p) = Len(y)
            /\ ret.val.log.acc = <<Cardinality(right), Len(y)>>

C4_Witness ==
    /\ hparams.loss_type = "ce" /\ n_classes = 1 /\ Returned("on_epoch_end")
    /\ \E i \in 1..Len(ret.aux.labels) :
          ret.aux.pred_probs[i] = 500 /\ ret.aux.labels[i] = 0
    /\ \E i \in 1..Len(ret.aux.labels) :
          ret.aux.pred_probs[i] > 500 /\ ret.aux.labels[i] = 1
    /\ ret.val.log.acc[1] = ret.val.log.acc[2]

C6_RegressionLossIsMSE ==
    (hparams.loss_type \in {"mse", "mae"} /\ ret.op \in StepOps /\ ret.raised = "none") =>
        LET p == ret.aux.pred_logits
            y == ret.aux.labels_list
            sq == [i \in 1..Len(p) |-> (p[i] - y[i]) * (p[i] - y[i])]
        IN  /\ ret.aux.loss = <<SumSeq(sq), Len(p) * hparams.batch_splits>>
            /\ (hparams.batch_splits = 1 /\ p = <<1, 2>> /\ y = <<1, 3>>)
                  => 2 * ret.aux.loss[1] = ret.aux.loss[2]

C6_Witness ==
    /\ hparams.loss_type = "mae" /\ hparams.batch_splits = 1
    /\ Returned("training_step")
    /\ ret.aux.pred_logits = <<1, 2>>
    /\ ret.aux.labels_list = <<1, 3>>
    /\ ret.val.loss = <<1, 2>>

(* C7: with a multi-class model the epoch-end accuracy is the share of     *)
(* examples whose arg-max class (index of the largest score) is the        *)
(* labelled class.                                                         *)
C7_ArgmaxAccuracy ==
    (hparams.loss_type = "ce" /\ n_classes > 1 /\ Returned("on_epoch_end")) =>
        LET p == ret.aux.pred_probs
            y == ret.aux.labels
            right == {i \in 1..Len(y) : y[i][ArgMax(p[i]) + 1] = 1}
        IN  FracEq(ret.val.log.acc, <<Cardinality(right), Len(y)>>)

(* The part of a path after its last "/".                                  *)
LastComponent(s) ==
    LET cuts == {i \in 1..Len(s) : s[i] = "/"}
        last == IF cuts = {} THEN 0 ELSE CHOOSE i \in cuts : \A j \in cuts : j <= i
    IN  SubSeq(s, last + 1, Len(s))

(* C8: every completed validation_step makes exactly one prediction write, *)
(* to the path made of the last component of hparams.data, the experiment  *)
(* label and the epoch of the call; training and test steps write nothing. *)
C8_OneWritePerValidationStep ==
    /\ Len(writes) = Len(validCalls)
    /\ \A i \in 1..Len(writes) :
          /\ writes[i].name = LastComponent(hparams.data)
          /\ writes[i].label = hparams.experiment_label
          /\ writes[i].epoch = validCalls[i].epoch

C8_Witness ==
    /\ Len(writes) = 2
    /\ stepsSince = MaxSteps
    /\ validCalls[1].batch_idx # validCalls[2].batch_idx
    /\ validCalls[1].epoch = validCalls[2].epoch
    /\ writes[1] = writes[2]
    /\ hparams.data = <<"d", "/">>

C10_TestEndReadsTestStep ==
    /\ Returned("test_step") => HasKey(ret.val, "test_loss") /\ HasKey(ret.val, "test_mae")
    /\ (ret.op = "test_end" /\ ret.aux.n > 0) => ret.raised = "none"

====
